---- MODULE Spec2Model ----
(***************************************************************************)
(* State-machine model of the response-orchestration engine of AI Story    *)
(* Studio (App component and geminiService).                               *)
(*                                                                         *)
(* Text is modelled as a sequence of atoms.  Document and selection text   *)
(* is a sequence of one-character strings, so that trim() and endsWith()   *)
(* are computed character by character.  A fixed literal of the source     *)
(* (a placeholder, an instruction prefix) is one atom.  Template literals  *)
(* are modelled by concatenation of the parts.                             *)
(***************************************************************************)
EXTENDS Integers, Sequences, FiniteSets, TLC

VARIABLES
    storyContent,     \* useState<string>('')            (DocumentContent)
    selectedText,     \* useState<string>('')            (SelectionSnapshot)
    isAiResponding,   \* useState<boolean>(false)        (ResponderState)
    chatHistory,      \* useState<ChatMessage[]>(initialChat)  (Ledger)
    isExportingPdf,   \* useState<boolean>(false)        (ExportJob.active)
    nextId,           \* number of nanoid() tokens handed out so far
    calls,            \* suspended async invocations (closures awaiting the gateway)
    timers,           \* exportWorker callbacks scheduled by setTimeout, not yet run
    workers,          \* exportWorker invocations suspended in html2canvas
    savedPdfs,        \* number of pdf.save calls so far
    savedAtRequest,   \* savedPdfs when the current/last export was requested
    lastCall          \* the handler or continuation that ran last

vars == <<storyContent, selectedText, isAiResponding, chatHistory, isExportingPdf,
          nextId, calls, timers, workers, savedPdfs, savedAtRequest, lastCall>>

aiVars == <<storyContent, selectedText, isAiResponding, chatHistory, nextId, calls>>
exportVars == <<isExportingPdf, timers, workers, savedPdfs, savedAtRequest>>

-----------------------------------------------------------------------------
(* Bounds *)

MaxIds == 3        \* nanoid() tokens available in one run
MaxExports == 2    \* artifacts saved in one run
MaxDocLen == 2     \* longest document a suggestion insertion may produce

-----------------------------------------------------------------------------
(* Text *)

Whitespace == {" ", "\t", "\n"}

RECURSIVE TrimStart(_)
TrimStart(s) ==
    IF s # <<>> /\ Head(s) \in Whitespace THEN TrimStart(Tail(s)) ELSE s

RECURSIVE TrimEnd(_)
TrimEnd(s) ==
    IF s # <<>> /\ s[Len(s)] \in Whitespace
    THEN TrimEnd(SubSeq(s, 1, Len(s) - 1)) ELSE s

\* String.prototype.trim
Trim(s) == TrimEnd(TrimStart(s))

\* String.prototype.endsWith, for a one-character suffix
EndsWith(s, c) == s # <<>> /\ s[Len(s)] = c

\* JavaScript truthiness of a string: the empty string is falsy
Truthy(s) == s # <<>>

\* t occurs in s as a contiguous run
Contains(s, t) ==
    \E i \in 0..(Len(s) - Len(t)) : SubSeq(s, i + 1, i + Len(t)) = t

RECURSIVE Flatten(_)
Flatten(ss) == IF ss = <<>> THEN <<>> ELSE Head(ss) \o Flatten(Tail(ss))

OnceUponATime ==
    <<"O","n","c","e"," ","u","p","o","n"," ","a"," ","t","i","m","e">>

C4Increments == << <<",">>, <<" ","a"," ","h","e","r","o">>, <<" ","r","o","s","e",".">> >>

OnceUponATimeAHeroRose ==
    <<"O","n","c","e"," ","u","p","o","n"," ","a"," ","t","i","m","e",
      ","," ","a"," ","h","e","r","o"," ","r","o","s","e",".">>

\* Values the editor may put into storyContent by a direct edit
Docs == { <<>>, <<" ">>, <<"a","\n">>, OnceUponATime }

\* Values the editor may report as the current selection (it starts empty)
Selections == { <<" ","\t">>, <<"a">> }

\* Texts of the suggestion buttons of the assistant panel
Suggestions == { <<"!">> }

\* Free-form chat input
Prompts == { <<"hi">> }

Languages == { <<"French">> }

\* Backend answers, failure messages and streams
Responses == { <<"reply">> }
ErrMsgs == { <<"quota">>, <<"network">> }
Streams == { <<>>, C4Increments }

-----------------------------------------------------------------------------
(* Ledger *)

Message(id, role, content, isThinking) ==
    [id |-> id, role |-> role, content |-> content, isThinking |-> isThinking]

\* Mutant: the resolved turn is taken out and appended at the end of the ledger
MapResolve_MoveToEnd(prev, thinkingId, content) ==
    SelectSeq(prev, LAMBDA msg : msg.id # thinkingId)
        \o [i \in 1..Cardinality({j \in DOMAIN prev : prev[j].id = thinkingId}) |->
              [id |-> thinkingId, role |-> "model",
               content |-> content, isThinking |-> FALSE]]

\* Mutant: the turn to resolve is picked by its flag, not by its id
MapResolve_AnyThinking(prev, thinkingId, content) ==
    [i \in DOMAIN prev |->
        IF prev[i].isThinking
        THEN [prev[i] EXCEPT !.content = content, !.isThinking = FALSE]
        ELSE prev[i]]

\* prev.map(msg => msg.id === thinkingId ? {...msg, content, isThinking: false} : msg)
MapResolve(prev, thinkingId, content) ==
    [i \in DOMAIN prev |->
        IF prev[i].id = thinkingId
        THEN [prev[i] EXCEPT !.content = content, !.isThinking = FALSE]
        ELSE prev[i]]

\* Mutant: every placeholder is filtered out, not only the one with thinkingId
FilterOut_AnyThinking(prev, thinkingId) ==
    SelectSeq(prev, LAMBDA msg : ~msg.isThinking)

\* prev.filter(msg => msg.id !== thinkingId)
FilterOut(prev, thinkingId) ==
    SelectSeq(prev, LAMBDA msg : msg.id # thinkingId)

initialChat == << Message(1, "system", <<"welcome">>, FALSE) >>

\* lastCall: op is the handler or continuation that ran last; id the thinkingId
\* of the orchestration it started or resumed (0 when it started none); arg the
\* text it passed to the gateway, or received from it.
Call(op, id, arg) == [op |-> op, id |-> id, arg |-> arg]

Init ==
    /\ storyContent = <<>>
    /\ selectedText = <<>>
    /\ isAiResponding = FALSE
    /\ chatHistory = initialChat
    /\ isExportingPdf = FALSE
    /\ nextId = 1
    /\ calls = {}
    /\ timers = 0
    /\ workers = 0
    /\ savedPdfs = 0
    /\ savedAtRequest = 0
    /\ lastCall = Call("init", 0, <<>>)

-----------------------------------------------------------------------------
(* Suspended invocations.                                                  *)
(* kind "turn":   handleSendMessage awaiting chatInstance.sendMessage.     *)
(* kind "stream": handleContinueWriting; pc "open" awaits                  *)
(*                continueWritingStream, pc "streaming" awaits the next    *)
(*                chunk of the for-await loop.                             *)
(* storyContent is the value captured by the closure, currentContent the   *)
(* local accumulator, stream the chunks the backend has yet to deliver.    *)
(* delivered and soleWriter are history fields: the chunks applied so far  *)
(* and whether nothing else wrote storyContent since the invocation.       *)

TurnCall(thinkingId) ==
    [kind |-> "turn", pc |-> "sendMessage", thinkingId |-> thinkingId,
     storyContent |-> <<>>, currentContent |-> <<>>,
     stream |-> <<>>, delivered |-> <<>>, soleWriter |-> TRUE]

StreamCall(thinkingId, captured) ==
    [kind |-> "stream", pc |-> "open", thinkingId |-> thinkingId,
     storyContent |-> captured, currentContent |-> <<>>,
     stream |-> <<>>, delivered |-> <<>>, soleWriter |-> TRUE]

\* Another writer has written storyContent: every streaming invocation but
\* `self` is no longer the sole writer since its start.
OtherWriter(cs, self) ==
    { IF c.kind = "stream" /\ c # self THEN [c EXCEPT !.soleWriter = FALSE] ELSE c
      : c \in cs }

-----------------------------------------------------------------------------
(* Turn orchestrator *)

\* const fullPrompt = hiddenPrompt || prompt  (an absent hiddenPrompt is falsy)
FullPrompt(prompt, hiddenPrompt) ==
    IF Truthy(hiddenPrompt) THEN hiddenPrompt ELSE prompt

\* Mutant: the user turn is built from the effective prompt, so a hidden
\* instruction shows up in the ledger
handleSendMessage_ShowsFullPrompt(prompt, hiddenPrompt) ==
    LET thinkingId == nextId + 1
        fullPrompt == FullPrompt(prompt, hiddenPrompt)
        userTurn == IF Truthy(fullPrompt)
                    THEN << Message(nextId + 2, "user", fullPrompt, FALSE) >>
                    ELSE <<>>
    IN  /\ nextId + 1 + Len(userTurn) <= MaxIds
        /\ isAiResponding' = TRUE
        /\ chatHistory' = chatHistory \o userTurn
                \o << Message(thinkingId, "model", <<"Thinking...">>, TRUE) >>
        /\ nextId' = nextId + 1 + Len(userTurn)
        /\ calls' = calls \cup { TurnCall(thinkingId) }
        /\ UNCHANGED <<storyContent, selectedText>>

\* handleSendMessage up to its await: lines 46-57.  The argument of sendMessage
\* is recorded by the caller in lastCall.
handleSendMessage(prompt, hiddenPrompt) ==
    LET thinkingId == nextId + 1
        userTurn == IF Truthy(prompt)
                    THEN << Message(nextId + 2, "user", prompt, FALSE) >>
                    ELSE <<>>
    IN  /\ nextId + 1 + Len(userTurn) <= MaxIds
        /\ isAiResponding' = TRUE
        /\ chatHistory' = chatHistory \o userTurn
                \o << Message(thinkingId, "model", <<"Thinking...">>, TRUE) >>
        /\ nextId' = nextId + 1 + Len(userTurn)
        /\ calls' = calls \cup { TurnCall(thinkingId) }
        /\ UNCHANGED <<storyContent, selectedText>>

\* Mutant: no finally block, so a fulfilled call leaves isAiResponding set
SendMessageFulfilled_NoFinally(c, text) ==
    /\ c \in calls /\ c.kind = "turn"
    /\ chatHistory' = MapResolve(chatHistory, c.thinkingId, text)
    /\ calls' = calls \ {c}
    /\ lastCall' = Call("sendMessageFulfilled", c.thinkingId, text)
    /\ UNCHANGED <<storyContent, selectedText, nextId, isAiResponding>>
    /\ UNCHANGED exportVars

\* handleSendMessage after a fulfilled await: lines 59-61, 68-70
SendMessageFulfilled(c, text) ==
    /\ c \in calls /\ c.kind = "turn"
    /\ chatHistory' = MapResolve(chatHistory, c.thinkingId, text)
    /\ isAiResponding' = FALSE
    /\ calls' = calls \ {c}
    /\ lastCall' = Call("sendMessageFulfilled", c.thinkingId, text)
    /\ UNCHANGED <<storyContent, selectedText, nextId>>
    /\ UNCHANGED exportVars

\* `An error occurred: ${e.message}`
TurnErrorContent(message) == <<"An error occurred: ">> \o message

\* Mutant: no finally block, so a rejection leaves isAiResponding set
SendMessageRejected_NoFinally(c, message) ==
    /\ c \in calls /\ c.kind = "turn"
    /\ chatHistory' = MapResolve(chatHistory, c.thinkingId, TurnErrorContent(message))
    /\ calls' = calls \ {c}
    /\ lastCall' = Call("sendMessageRejected", c.thinkingId, message)
    /\ UNCHANGED <<storyContent, selectedText, nextId, isAiResponding>>
    /\ UNCHANGED exportVars

\* handleSendMessage after a rejected await: lines 63-70
SendMessageRejected(c, message) ==
    /\ c \in calls /\ c.kind = "turn"
    /\ chatHistory' = MapResolve(chatHistory, c.thinkingId, TurnErrorContent(message))
    /\ isAiResponding' = FALSE
    /\ calls' = calls \ {c}
    /\ lastCall' = Call("sendMessageRejected", c.thinkingId, message)
    /\ UNCHANGED <<storyContent, selectedText, nextId>>
    /\ UNCHANGED exportVars

\* addSystemMessage: lines 73-75
addSystemMessage(content) ==
    /\ nextId + 1 <= MaxIds
    /\ chatHistory' = Append(chatHistory, Message(nextId + 1, "system", content, FALSE))
    /\ nextId' = nextId + 1

-----------------------------------------------------------------------------
(* UI actions that delegate to the turn orchestrator *)

TitlesPrompt(story) ==
    <<"Based on the following story, suggest 5 creative titles. Story: \"">>
        \o story \o <<"\"">>

CharactersPrompt ==
    <<"Generate 3 diverse and interesting character ideas for a story. Provide a name and a short description for each.">>

PlotTwistPrompt(story) ==
    <<"Based on the following story, suggest one surprising plot twist. Story: \"">>
        \o story \o <<"\"">>

ImprovePrompt(text) ==
    <<"Rewrite the following text to be more vivid and engaging, improving the prose without adding new plot points. Text: \"">>
        \o text \o <<"\"">>

TranslatePrompt(language, text) ==
    <<"Translate the following text into ">> \o language
        \o <<". Only return the translated text. Text: \"">> \o text \o <<"\"">>

DiscussPrompt == <<"Let's brainstorm some ideas for my story.">>

handleSuggestTitles ==
    /\ handleSendMessage(<<>>, TitlesPrompt(storyContent))
    /\ lastCall' = Call("handleSuggestTitles", nextId + 1,
                        FullPrompt(<<>>, TitlesPrompt(storyContent)))
    /\ UNCHANGED exportVars

handleGetCharacterIdeas ==
    /\ handleSendMessage(<<>>, CharactersPrompt)
    /\ lastCall' = Call("handleGetCharacterIdeas", nextId + 1,
                        FullPrompt(<<>>, CharactersPrompt))
    /\ UNCHANGED exportVars

handleSuggestPlotTwist ==
    /\ handleSendMessage(<<>>, PlotTwistPrompt(storyContent))
    /\ lastCall' = Call("handleSuggestPlotTwist", nextId + 1,
                        FullPrompt(<<>>, PlotTwistPrompt(storyContent)))
    /\ UNCHANGED exportVars

\* Mutant: the selection is not validated
handleImproveWriting_NoSelectionCheck ==
    /\ handleSendMessage(<<>>, ImprovePrompt(selectedText))
    /\ lastCall' = Call("handleImproveWriting", nextId + 1,
                        FullPrompt(<<>>, ImprovePrompt(selectedText)))
    /\ UNCHANGED exportVars

handleImproveWriting ==
    /\ IF Trim(selectedText) = <<>>
       THEN /\ addSystemMessage(<<"Please select some text in the editor to improve.">>)
            /\ lastCall' = Call("handleImproveWriting", 0, <<>>)
            /\ UNCHANGED <<storyContent, selectedText, isAiResponding, calls>>
       ELSE /\ handleSendMessage(<<>>, ImprovePrompt(selectedText))
            /\ lastCall' = Call("handleImproveWriting", nextId + 1,
                                FullPrompt(<<>>, ImprovePrompt(selectedText)))
    /\ UNCHANGED exportVars

handleLanguageSelect(language) ==
    /\ IF Trim(selectedText) = <<>>
       THEN /\ UNCHANGED aiVars
            /\ lastCall' = Call("handleLanguageSelect", 0, <<>>)
       ELSE /\ handleSendMessage(<<>>, TranslatePrompt(language, selectedText))
            /\ lastCall' = Call("handleLanguageSelect", nextId + 1,
                                FullPrompt(<<>>, TranslatePrompt(language, selectedText)))
    /\ UNCHANGED exportVars

handleTranslate ==
    /\ IF Trim(selectedText) = <<>>
       THEN addSystemMessage(<<"Please select some text to translate.">>)
       ELSE addSystemMessage(<<"translate">>)
    /\ lastCall' = Call("handleTranslate", 0, <<>>)
    /\ UNCHANGED <<storyContent, selectedText, isAiResponding, calls>>
    /\ UNCHANGED exportVars

onDiscussIdea ==
    /\ handleSendMessage(DiscussPrompt, <<>>)
    /\ lastCall' = Call("onDiscussIdea", nextId + 1, FullPrompt(DiscussPrompt, <<>>))
    /\ UNCHANGED exportVars

onWritersBlock ==
    /\ addSystemMessage(<<"writers_block">>)
    /\ lastCall' = Call("onWritersBlock", 0, <<>>)
    /\ UNCHANGED <<storyContent, selectedText, isAiResponding, calls>>
    /\ UNCHANGED exportVars

\* AIAssistantPanel onSendMessage={handleSendMessage}: free-form chat send
onSendMessage(prompt) ==
    /\ handleSendMessage(prompt, <<>>)
    /\ lastCall' = Call("onSendMessage", nextId + 1, FullPrompt(prompt, <<>>))
    /\ UNCHANGED exportVars

-----------------------------------------------------------------------------
(* AI backend gateway *)

\* Mutant: no fallback for an empty story
StreamContents_NoFallback(story) == story

\* geminiService.continueWritingStream: storyContent || "Start a new, intriguing story."
StreamContents(story) ==
    IF Truthy(story) THEN story ELSE <<"Start a new, intriguing story.">>

-----------------------------------------------------------------------------
(* Streaming continuation controller *)

\* Mutant: no separating space
InitialCurrentContent_NoSeparator(story) == story

\* storyContent.length > 0 && !storyContent.endsWith(' ') ? storyContent + ' ' : storyContent
InitialCurrentContent(story) ==
    IF Len(story) > 0 /\ ~EndsWith(story, " ") THEN story \o <<" ">> ELSE story

\* `An error occurred while streaming: ${e.message}`
StreamErrorContent(message) == <<"An error occurred while streaming: ">> \o message

\* Mutant: no entry guard
handleContinueWriting_NoGuard ==
    /\ nextId + 1 <= MaxIds
    /\ isAiResponding' = TRUE
    /\ chatHistory' = Append(chatHistory,
           Message(nextId + 1, "model", <<"Continuing the story...">>, TRUE))
    /\ nextId' = nextId + 1
    /\ calls' = calls \cup { StreamCall(nextId + 1, storyContent) }
    /\ lastCall' = Call("handleContinueWriting", nextId + 1, StreamContents(storyContent))
    /\ UNCHANGED <<storyContent, selectedText>>
    /\ UNCHANGED exportVars

\* handleContinueWriting up to its first await: lines 99-105.  The handler is
\* rebuilt on every render (its dependencies are storyContent and
\* isAiResponding), and a state change made in a click is rendered before the
\* next click is handled, so the guard reads the current isAiResponding.
handleContinueWriting ==
    /\ IF isAiResponding
       THEN /\ UNCHANGED aiVars
            /\ lastCall' = Call("handleContinueWriting", 0, <<>>)
       ELSE /\ nextId + 1 <= MaxIds
            /\ isAiResponding' = TRUE
            /\ chatHistory' = Append(chatHistory,
                   Message(nextId + 1, "model", <<"Continuing the story...">>, TRUE))
            /\ nextId' = nextId + 1
            /\ calls' = calls \cup { StreamCall(nextId + 1, storyContent) }
            /\ lastCall' = Call("handleContinueWriting", nextId + 1,
                                StreamContents(storyContent))
            /\ UNCHANGED <<storyContent, selectedText>>
    /\ UNCHANGED exportVars

\* The stream is opened: line 106, then the loop awaits its first chunk
StreamOpened(c, stream) ==
    /\ c \in calls /\ c.kind = "stream" /\ c.pc = "open"
    /\ calls' = (calls \ {c}) \cup
           { [c EXCEPT !.pc = "streaming", !.stream = stream,
                       !.currentContent = InitialCurrentContent(c.storyContent)] }
    /\ lastCall' = Call("streamOpened", c.thinkingId, <<>>)
    /\ UNCHANGED <<storyContent, selectedText, isAiResponding, chatHistory, nextId>>
    /\ UNCHANGED exportVars

\* Mutant: the chunk is appended to the storyContent of the closure, not to
\* the accumulator
StreamChunk_StaleClosure(c) ==
    /\ c \in calls /\ c.kind = "stream" /\ c.pc = "streaming" /\ c.stream # <<>>
    /\ LET currentContent == c.storyContent \o Head(c.stream)
           self == [c EXCEPT !.currentContent = currentContent,
                             !.stream = Tail(c.stream),
                             !.delivered = Append(c.delivered, Head(c.stream))]
       IN  /\ storyContent' = currentContent
           /\ calls' = OtherWriter((calls \ {c}) \cup {self}, self)
    /\ lastCall' = Call("streamChunk", c.thinkingId, Head(c.stream))
    /\ UNCHANGED <<selectedText, isAiResponding, chatHistory, nextId>>
    /\ UNCHANGED exportVars

\* One iteration of the for-await loop: lines 108-111
StreamChunk(c) ==
    /\ c \in calls /\ c.kind = "stream" /\ c.pc = "streaming" /\ c.stream # <<>>
    /\ LET currentContent == c.currentContent \o Head(c.stream)
           self == [c EXCEPT !.currentContent = currentContent,
                             !.stream = Tail(c.stream),
                             !.delivered = Append(c.delivered, Head(c.stream))]
       IN  /\ storyContent' = currentContent
           /\ calls' = OtherWriter((calls \ {c}) \cup {self}, self)
    /\ lastCall' = Call("streamChunk", c.thinkingId, Head(c.stream))
    /\ UNCHANGED <<selectedText, isAiResponding, chatHistory, nextId>>
    /\ UNCHANGED exportVars

\* Mutant: the placeholder is not discarded when the stream is exhausted
StreamCompleted_NoDiscard(c) ==
    /\ c \in calls /\ c.kind = "stream" /\ c.pc = "streaming" /\ c.stream = <<>>
    /\ isAiResponding' = FALSE
    /\ calls' = calls \ {c}
    /\ lastCall' = Call("streamCompleted", c.thinkingId, <<>>)
    /\ UNCHANGED <<storyContent, selectedText, nextId, chatHistory>>
    /\ UNCHANGED exportVars

\* The stream is exhausted: lines 112, 116-118
StreamCompleted(c) ==
    /\ c \in calls /\ c.kind = "stream" /\ c.pc = "streaming" /\ c.stream = <<>>
    /\ chatHistory' = FilterOut(chatHistory, c.thinkingId)
    /\ isAiResponding' = FALSE
    /\ calls' = calls \ {c}
    /\ lastCall' = Call("streamCompleted", c.thinkingId, <<>>)
    /\ UNCHANGED <<storyContent, selectedText, nextId>>
    /\ UNCHANGED exportVars

\* Mutant: a failure restores the document captured at invocation
StreamRejected_Rollback(c, message) ==
    /\ c \in calls /\ c.kind = "stream"
    /\ chatHistory' = MapResolve(chatHistory, c.thinkingId, StreamErrorContent(message))
    /\ isAiResponding' = FALSE
    /\ storyContent' = c.storyContent
    /\ calls' = calls \ {c}
    /\ lastCall' = Call("streamRejected", c.thinkingId, message)
    /\ UNCHANGED <<selectedText, nextId>>
    /\ UNCHANGED exportVars

\* continueWritingStream rejects, or the iteration throws: lines 113-118
StreamRejected(c, message) ==
    /\ c \in calls /\ c.kind = "stream"
    /\ chatHistory' = MapResolve(chatHistory, c.thinkingId, StreamErrorContent(message))
    /\ isAiResponding' = FALSE
    /\ calls' = calls \ {c}
    /\ lastCall' = Call("streamRejected", c.thinkingId, message)
    /\ UNCHANGED <<storyContent, selectedText, nextId>>
    /\ UNCHANGED exportVars

-----------------------------------------------------------------------------
(* Editor *)

\* Editor onContentChange={setStoryContent}: a direct user edit
onContentChange(text) ==
    /\ text # storyContent
    /\ storyContent' = text
    /\ calls' = OtherWriter(calls, [kind |-> "editor"])
    /\ lastCall' = Call("onContentChange", 0, text)
    /\ UNCHANGED <<selectedText, isAiResponding, chatHistory, nextId>>
    /\ UNCHANGED exportVars

\* Editor onSelectionChange={setSelectedText}
onSelectionChange(text) ==
    /\ text # selectedText
    /\ selectedText' = text
    /\ lastCall' = Call("onSelectionChange", 0, text)
    /\ UNCHANGED <<storyContent, isAiResponding, chatHistory, nextId, calls>>
    /\ UNCHANGED exportVars

\* Caret positions of the textarea that the model tries: start, end, select all
CaretPositions(story) == {0, Len(story)}

\* handleSuggestionClick: lines 134-141
handleSuggestionClick(text, selectionStart, selectionEnd) ==
    LET newText == SubSeq(storyContent, 1, selectionStart) \o text
                       \o SubSeq(storyContent, selectionEnd + 1, Len(storyContent))
    IN  /\ selectionStart <= selectionEnd
        /\ Len(newText) <= MaxDocLen
        /\ storyContent' = newText
        /\ calls' = OtherWriter(calls, [kind |-> "editor"])
        /\ lastCall' = Call("handleSuggestionClick", 0, text)
        /\ UNCHANGED <<selectedText, isAiResponding, chatHistory, nextId>>
        /\ UNCHANGED exportVars

-----------------------------------------------------------------------------
(* Export snapshot pipeline *)

\* Mutant: the content is tested without trim()
handleExportPdf_NoTrim ==
    /\ IF storyContent # <<>> /\ ~isExportingPdf
       THEN /\ savedPdfs < MaxExports
            /\ isExportingPdf' = TRUE
            /\ timers' = timers + 1
            /\ savedAtRequest' = savedPdfs
            /\ UNCHANGED <<workers, savedPdfs>>
       ELSE UNCHANGED exportVars
    /\ lastCall' = Call("handleExportPdf", 0, <<>>)
    /\ UNCHANGED aiVars

\* Mutant: the effect schedules a worker on every request, not on a change of
\* isExportingPdf
handleExportPdf_AlwaysSchedule ==
    /\ IF Trim(storyContent) # <<>>
       THEN /\ savedPdfs < MaxExports
            /\ isExportingPdf' = TRUE
            /\ timers' = timers + 1
            /\ savedAtRequest' = IF isExportingPdf THEN savedAtRequest ELSE savedPdfs
            /\ UNCHANGED <<workers, savedPdfs>>
       ELSE UNCHANGED exportVars
    /\ lastCall' = Call("handleExportPdf", 0, <<>>)
    /\ UNCHANGED aiVars

\* handleExportPdf (lines 144-146) and the effect it triggers (lines 152-153, 173):
\* the effect runs only when isExportingPdf changes, and schedules one worker.
handleExportPdf ==
    /\ IF Trim(storyContent) # <<>> /\ ~isExportingPdf
       THEN /\ savedPdfs < MaxExports
            /\ isExportingPdf' = TRUE
            /\ timers' = timers + 1
            /\ savedAtRequest' = savedPdfs
            /\ UNCHANGED <<workers, savedPdfs>>
       ELSE UNCHANGED exportVars
    /\ lastCall' = Call("handleExportPdf", 0, <<>>)
    /\ UNCHANGED aiVars

\* exportWorker starts after the delay: lines 155-158.  elementMounted is
\* whether pdfRef.current holds the off-screen render target.
exportWorkerStarted(elementMounted) ==
    /\ timers > 0
    /\ timers' = timers - 1
    /\ IF elementMounted
       THEN /\ workers' = workers + 1
            /\ UNCHANGED isExportingPdf
       ELSE /\ isExportingPdf' = FALSE
            /\ UNCHANGED workers
    /\ lastCall' = Call("exportWorkerStarted", 0, <<>>)
    /\ UNCHANGED <<savedPdfs, savedAtRequest>>
    /\ UNCHANGED aiVars

\* html2canvas fulfilled and packaging succeeded: lines 159-165, 169-171
exportWorkerSaved ==
    /\ workers > 0
    /\ workers' = workers - 1
    /\ savedPdfs' = savedPdfs + 1
    /\ isExportingPdf' = FALSE
    /\ lastCall' = Call("exportWorkerSaved", 0, <<>>)
    /\ UNCHANGED <<timers, savedAtRequest>>
    /\ UNCHANGED aiVars

\* Mutant: no finally block, so a failed capture leaves isExportingPdf set
exportWorkerFailed_NoFinally ==
    /\ workers > 0
    /\ workers' = workers - 1
    /\ addSystemMessage(<<"Could not export to PDF. See console for details.">>)
    /\ lastCall' = Call("exportWorkerFailed", 0, <<>>)
    /\ UNCHANGED <<timers, savedPdfs, savedAtRequest, isExportingPdf>>
    /\ UNCHANGED <<storyContent, selectedText, isAiResponding, calls>>

\* html2canvas rejected or packaging threw: lines 166-171
exportWorkerFailed ==
    /\ workers > 0
    /\ workers' = workers - 1
    /\ isExportingPdf' = FALSE
    /\ addSystemMessage(<<"Could not export to PDF. See console for details.">>)
    /\ lastCall' = Call("exportWorkerFailed", 0, <<>>)
    /\ UNCHANGED <<timers, savedPdfs, savedAtRequest>>
    /\ UNCHANGED <<storyContent, selectedText, isAiResponding, calls>>

-----------------------------------------------------------------------------

Next ==
    \/ handleSuggestTitles
    \/ handleGetCharacterIdeas
    \/ handleSuggestPlotTwist
    \/ handleImproveWriting
    \/ \E language \in Languages : handleLanguageSelect(language)
    \/ handleTranslate
    \/ onDiscussIdea
    \/ onWritersBlock
    \/ \E prompt \in Prompts : onSendMessage(prompt)
    \/ \E c \in calls, text \in Responses : SendMessageFulfilled(c, text)
    \/ \E c \in calls, message \in ErrMsgs : SendMessageRejected(c, message)
    \/ handleContinueWriting
    \/ \E c \in calls, stream \in Streams : StreamOpened(c, stream)
    \/ \E c \in calls : StreamChunk(c)
    \/ \E c \in calls : StreamCompleted(c)
    \/ \E c \in calls, message \in ErrMsgs : StreamRejected(c, message)
    \/ \E text \in Docs : onContentChange(text)
    \/ \E text \in Selections : onSelectionChange(text)

\* The orchestration engine: ledger, ResponderState, document and selection
Spec == Init /\ [][Next]_vars

\* A promise or stream issued to the gateway settles: the await of the call
\* holding thinkingId resumes, or its stream yields, ends or throws
GatewaySettles(thinkingId) ==
    \E c \in calls :
        /\ c.thinkingId = thinkingId
        /\ \/ \E text \in Responses : SendMessageFulfilled(c, text)
           \/ \E message \in ErrMsgs : SendMessageRejected(c, message)
           \/ \E stream \in Streams : StreamOpened(c, stream)
           \/ StreamChunk(c)
           \/ StreamCompleted(c)
           \/ \E message \in ErrMsgs : StreamRejected(c, message)

\* The orchestration engine when every issued call or stream settles
SpecFair ==
    /\ Spec
    /\ \A thinkingId \in 2..MaxIds : WF_vars(GatewaySettles(thinkingId))

\* The export pipeline runs on its own state field; of the rest of the
\* application it only reads storyContent and appends to the ledger.
NextExport ==
    \/ handleExportPdf
    \/ \E elementMounted \in BOOLEAN : exportWorkerStarted(elementMounted)
    \/ exportWorkerSaved
    \/ exportWorkerFailed
    \/ \E text \in Docs : onContentChange(text)
    \/ onWritersBlock

SpecExport == Init /\ [][NextExport]_vars

\* The timer of setTimeout fires, and the promise of html2canvas settles
SpecExportFair ==
    /\ SpecExport
    /\ WF_vars(\E elementMounted \in BOOLEAN : exportWorkerStarted(elementMounted))
    /\ WF_vars(exportWorkerSaved \/ exportWorkerFailed)

\* The streaming continuation with every writer of storyContent
NextStream ==
    \/ handleContinueWriting
    \/ \E c \in calls, stream \in Streams : StreamOpened(c, stream)
    \/ \E c \in calls : StreamChunk(c)
    \/ \E c \in calls : StreamCompleted(c)
    \/ \E c \in calls, message \in ErrMsgs : StreamRejected(c, message)
    \/ \E text \in Docs : onContentChange(text)
    \/ \E text \in Suggestions, selectionStart, selectionEnd \in CaretPositions(storyContent) :
           handleSuggestionClick(text, selectionStart, selectionEnd)

SpecStream == Init /\ [][NextStream]_vars

-----------------------------------------------------------------------------
(* Properties *)

\* The turn of the ledger h that carries id, as a set (empty when absent)
TurnsWithId(h, id) == { i \in DOMAIN h : h[i].id = id }

\* C1: in every reachable state isAiResponding is true if and only if at
\* least one orchestration has started and not yet resolved.
C1_ResponderIffInFlight ==
    isAiResponding <=> (calls # {})

\* C2: in no reachable state are two orchestrations both started and not yet
\* resolved.
C2_AtMostOneOrchestration ==
    Cardinality(calls) <= 1

\* C3: a continue-writing request issued while isAiResponding is true changes
\* nothing: no turn is appended, no stream is requested, storyContent and
\* isAiResponding keep their values, and no invocation is left pending.
C3_ContinueDroppedWhileResponding ==
    [][ (lastCall'.op = "handleContinueWriting" /\ isAiResponding)
            => /\ UNCHANGED <<storyContent, selectedText, isAiResponding,
                             chatHistory, nextId, calls>>
               /\ lastCall'.id = 0 ]_vars

C3_Witness ==
    /\ lastCall = Call("handleContinueWriting", 0, <<>>)
    /\ isAiResponding
    /\ \E c \in calls : c.kind = "stream" /\ c.pc = "streaming"

\* C4 as stated: a continuation started on "Once upon a time" that delivers
\* ",", " a hero", " rose." and completes, with no other writer, ends with
\* storyContent = "Once upon a time, a hero rose."
C4_Original ==
    [][ \A c \in calls :
          ( /\ lastCall' = Call("streamCompleted", c.thinkingId, <<>>)
            /\ c.storyContent = OnceUponATime
            /\ c.delivered = C4Increments
            /\ c.soleWriter )
          => storyContent' = OnceUponATimeAHeroRose ]_vars

OnceUponATimeSpaceAHeroRose ==
    <<"O","n","c","e"," ","u","p","o","n"," ","a"," ","t","i","m","e",
      " ",","," ","a"," ","h","e","r","o"," ","r","o","s","e",".">>

\* C4 amended: the same continuation ends with
\* storyContent = "Once upon a time , a hero rose.": one separating space is
\* inserted before the first increment, and the increments follow unchanged.
C4_SeparatorBeforeFirstIncrement ==
    [][ \A c \in calls :
          ( /\ lastCall' = Call("streamCompleted", c.thinkingId, <<>>)
            /\ c.storyContent = OnceUponATime
            /\ c.delivered = C4Increments
            /\ c.soleWriter )
          => storyContent' = OnceUponATimeSpaceAHeroRose ]_vars

C4_Witness ==
    /\ lastCall.op = "streamCompleted"
    /\ storyContent = OnceUponATimeSpaceAHeroRose
    /\ calls = {}
    /\ ~isAiResponding

\* C5: when sendMessage rejects, the handler ends: its provisional turn holds
\* error content that contains the failure's message, isThinking is false, and
\* isAiResponding is false.
C5_TurnFailureBecomesLedgerContent ==
    [][ \A c \in calls, message \in ErrMsgs :
          lastCall' = Call("sendMessageRejected", c.thinkingId, message)
          => /\ c \notin calls'
             /\ \E i \in DOMAIN chatHistory' :
                   /\ chatHistory'[i].id = c.thinkingId
                   /\ chatHistory'[i].role = "model"
                   /\ Head(chatHistory'[i].content) = "An error occurred: "
                   /\ Contains(Tail(chatHistory'[i].content), message)
                   /\ ~chatHistory'[i].isThinking
             /\ ~isAiResponding' ]_vars

C5_Witness ==
    /\ lastCall.op = "sendMessageRejected"
    /\ \E i \in DOMAIN chatHistory :
          /\ chatHistory[i].id = lastCall.id
          /\ chatHistory[i].content = <<"An error occurred: ">> \o lastCall.arg
          /\ ~chatHistory[i].isThinking
    /\ ~isAiResponding

\* C6: when a streaming continuation fails after k >= 0 increments,
\* storyContent keeps the k increments already appended, the placeholder turn
\* stays in the ledger resolved to an error description with isThinking false,
\* and isAiResponding is false.
C6_StreamFailureKeepsPartialContent ==
    [][ \A c \in calls, message \in ErrMsgs :
          lastCall' = Call("streamRejected", c.thinkingId, message)
          => /\ storyContent' = storyContent
             /\ (c.soleWriter /\ c.delivered = <<>>) => storyContent' = c.storyContent
             /\ (c.soleWriter /\ c.delivered # <<>>) =>
                    storyContent' = InitialCurrentContent(c.storyContent)
                                        \o Flatten(c.delivered)
             /\ Len(chatHistory') = Len(chatHistory)
             /\ \E i \in DOMAIN chatHistory' :
                   /\ chatHistory'[i].id = c.thinkingId
                   /\ Head(chatHistory'[i].content) = "An error occurred while streaming: "
                   /\ Contains(Tail(chatHistory'[i].content), message)
                   /\ ~chatHistory'[i].isThinking
             /\ c \notin calls'
             /\ ~isAiResponding' ]_vars

C6_Witness ==
    /\ lastCall.op = "streamRejected"
    /\ storyContent = OnceUponATime \o <<" ", ",">>
    /\ \E i \in DOMAIN chatHistory :
          /\ chatHistory[i].id = lastCall.id
          /\ chatHistory[i].content = StreamErrorContent(lastCall.arg)
          /\ ~chatHistory[i].isThinking
    /\ ~isAiResponding

\* C7: a provisional turn changes only in the step in which its own
\* orchestration resolves, where it is resolved (same id, isThinking false) or
\* discarded and that orchestration ends; every other turn, in particular a
\* resolved one, is still in the ledger with the same id, content and flag
\* after every step.
C7_TurnResolvedExactlyOnce ==
    [][ \A i \in DOMAIN chatHistory :
          LET t == chatHistory[i]
              kept == \E j \in DOMAIN chatHistory' : chatHistory'[j] = t
              after == TurnsWithId(chatHistory', t.id)
          IN  IF t.isThinking
              THEN \/ kept
                   \/ \E c \in calls :
                         /\ c.thinkingId = t.id
                         /\ calls' = calls \ {c}
                         /\ \A j \in after : ~chatHistory'[j].isThinking
                         /\ Cardinality(after) <= 1
              ELSE kept ]_vars

C7_Witness ==
    /\ lastCall.op \in {"sendMessageFulfilled", "sendMessageRejected",
                        "streamCompleted", "streamRejected"}
    /\ \E i \in DOMAIN chatHistory :
          /\ chatHistory[i].role = "model"
          /\ ~chatHistory[i].isThinking
          /\ chatHistory[i].id < lastCall.id

\* C8: Improve or Translate with an empty or whitespace-only selection starts
\* no orchestration (no gateway call, no provisional turn, isAiResponding
\* unchanged) and appends exactly one system turn to the ledger.
C8_EmptySelectionGivesAdvisory ==
    [][ ( /\ lastCall'.op \in {"handleImproveWriting", "handleTranslate"}
          /\ Trim(selectedText) = <<>> )
        => /\ lastCall'.id = 0
           /\ UNCHANGED <<calls, isAiResponding, storyContent, selectedText>>
           /\ Len(chatHistory') = Len(chatHistory) + 1
           /\ SubSeq(chatHistory', 1, Len(chatHistory)) = chatHistory
           /\ chatHistory'[Len(chatHistory')].role = "system"
           /\ ~chatHistory'[Len(chatHistory')].isThinking ]_vars

C8_Witness ==
    /\ lastCall.op = "handleImproveWriting"
    /\ selectedText = <<" ", "\t">>
    /\ chatHistory[Len(chatHistory)].role = "system"
    /\ chatHistory[Len(chatHistory)].content
           = <<"Please select some text in the editor to improve.">>
    /\ calls = {}

\* C9: an export request made while storyContent is empty or whitespace-only
\* changes nothing of the export pipeline and appends no turn: isExportingPdf
\* stays false, no worker is scheduled, nothing is saved.
C9_EmptyDocumentExportIsNoOp ==
    [][ (lastCall'.op = "handleExportPdf" /\ Trim(storyContent) = <<>>)
        => UNCHANGED <<isExportingPdf, timers, workers, savedPdfs, savedAtRequest,
                       chatHistory, nextId, storyContent>> ]_vars

C9_Witness ==
    /\ lastCall.op = "handleExportPdf"
    /\ storyContent = <<" ">>
    /\ ~isExportingPdf
    /\ timers = 0 /\ workers = 0

\* C10: at most one export worker is pending or running, one is pending or
\* running exactly while isExportingPdf is true, a request made meanwhile
\* adds none, and an export saves exactly one artifact when its worker
\* succeeds and none before.
C10_ExportSingleFlight ==
    /\ timers + workers <= 1
    /\ isExportingPdf <=> (timers + workers = 1)
    /\ isExportingPdf => savedPdfs = savedAtRequest
    /\ savedPdfs - savedAtRequest \in {0, 1}
    /\ lastCall.op = "exportWorkerSaved" => savedPdfs = savedAtRequest + 1

C10_Witness ==
    /\ lastCall.op = "handleExportPdf"
    /\ isExportingPdf
    /\ workers = 1


\* C11: every export that is requested (isExportingPdf true) eventually
\* returns to idle (isExportingPdf false), whether the capture succeeds, fails,
\* or the render target is missing; a failed capture appends exactly one
\* system turn to the ledger and saves nothing.
C11_ExportAlwaysReturnsToIdle ==
    /\ isExportingPdf ~> ~isExportingPdf
    /\ [][ lastCall'.op = "exportWorkerFailed"
            => /\ ~isExportingPdf'
               /\ savedPdfs' = savedPdfs
               /\ Len(chatHistory') = Len(chatHistory) + 1
               /\ SubSeq(chatHistory', 1, Len(chatHistory)) = chatHistory
               /\ chatHistory'[Len(chatHistory')].role = "system"
               /\ ~chatHistory'[Len(chatHistory')].isThinking ]_vars
    /\ [][ (lastCall'.op = "exportWorkerStarted" /\ workers' = workers)
            => /\ ~isExportingPdf'
               /\ savedPdfs' = savedPdfs
               /\ chatHistory' = chatHistory ]_vars

C11_Witness ==
    /\ lastCall.op = "exportWorkerFailed"
    /\ ~isExportingPdf
    /\ savedPdfs = savedAtRequest
    /\ chatHistory[Len(chatHistory)].content
           = <<"Could not export to PDF. See console for details.">>


\* C12: the prompt a streaming continuation sends to the backend is never
\* empty: it is the generic story-opening instruction when storyContent is
\* empty at invocation, and the captured storyContent unchanged otherwise.
C12_StreamPromptNeverEmpty ==
    (lastCall.op = "handleContinueWriting" /\ lastCall.id # 0)
    => /\ lastCall.arg # <<>>
       /\ \E c \in calls :
             /\ c.thinkingId = lastCall.id
             /\ c.kind = "stream"
             /\ c.storyContent = storyContent
             /\ c.storyContent = <<>>
                    => lastCall.arg = <<"Start a new, intriguing story.">>
             /\ c.storyContent # <<>> => lastCall.arg = c.storyContent

C12_Witness ==
    /\ lastCall.op = "handleContinueWriting"
    /\ lastCall.arg = <<"Start a new, intriguing story.">>
    /\ storyContent = <<>>
    /\ \E c \in calls : c.thinkingId = lastCall.id /\ c.pc = "open"


\* C13: at the boundary between the storyContent captured at invocation and
\* the first increment, one space is inserted if and only if the captured
\* storyContent is non-empty and its last character is not a space, tab or
\* newline.
C13_SeparatorUnlessWhitespace ==
    [][ \A c \in calls :
          ( /\ lastCall' = Call("streamChunk", c.thinkingId, lastCall'.arg)
            /\ c.kind = "stream" /\ c.pc = "streaming"
            /\ c.delivered = <<>>
            /\ c.soleWriter )
          => LET doc == c.storyContent
                 separator == IF doc # <<>> /\ doc[Len(doc)] \notin Whitespace
                              THEN <<" ">> ELSE <<>>
             IN  storyContent' = doc \o separator \o lastCall'.arg ]_vars


\* C14: an increment is appended to storyContent as it stands at that step:
\* after the step storyContent is its value before the step followed by the
\* increment, so text written between two increments by a direct edit is kept.
\* Stated for the increments after the first, where no separator is involved.
C14_IncrementAppendsToCurrentDocument ==
    [][ \A c \in calls :
          ( /\ lastCall' = Call("streamChunk", c.thinkingId, lastCall'.arg)
            /\ c.kind = "stream" /\ c.pc = "streaming"
            /\ c.delivered # <<>> )
          => storyContent' = storyContent \o lastCall'.arg ]_vars


\* The text a continuation appends to: the captured storyContent with its
\* separating space
BaseText(c) ==
    IF Len(c.storyContent) > 0 /\ c.storyContent[Len(c.storyContent)] # " "
    THEN c.storyContent \o <<" ">> ELSE c.storyContent

\* C15: with no other writer, each step of a continuation applies exactly the
\* next increment of the stream: the increments delivered so far followed by
\* those still to come are the stream as opened, and after the step that
\* delivers increment i storyContent is the base text followed by increments
\* 1..i in stream order.
C15_IncrementsInStreamOrder ==
    [][ \A c \in calls :
          ( /\ lastCall' = Call("streamChunk", c.thinkingId, lastCall'.arg)
            /\ c.kind = "stream" /\ c.pc = "streaming"
            /\ c.soleWriter )
          => /\ c.delivered \o c.stream \in Streams
             /\ lastCall'.arg = (c.delivered \o c.stream)[Len(c.delivered) + 1]
             /\ c.delivered # <<>> =>
                    storyContent = BaseText(c) \o Flatten(c.delivered)
             /\ storyContent' = BaseText(c) \o Flatten(c.delivered) \o lastCall'.arg
             /\ \E d \in calls' :
                   /\ d.thinkingId = c.thinkingId
                   /\ d.delivered = Append(c.delivered, lastCall'.arg)
                   /\ d.delivered \o d.stream = c.delivered \o c.stream ]_vars

C15_Witness ==
    /\ lastCall.op = "streamChunk"
    /\ lastCall.arg = C4Increments[2]
    /\ storyContent = OnceUponATime \o <<" ">> \o C4Increments[1] \o C4Increments[2]
    /\ \E c \in calls :
          /\ c.thinkingId = lastCall.id
          /\ c.soleWriter
          /\ c.stream = << C4Increments[3] >>


\* h without its k-th turn
WithoutTurn(h, k) == SubSeq(h, 1, k - 1) \o SubSeq(h, k + 1, Len(h))

\* C16: when a streaming continuation completes, its own placeholder turn is
\* removed from the ledger and every other turn stays, unchanged and in the
\* same order; no other step removes a turn.
C16_CompletionDiscardsOwnPlaceholderOnly ==
    [][ /\ \A c \in calls :
             lastCall' = Call("streamCompleted", c.thinkingId, <<>>)
             => \E k \in DOMAIN chatHistory :
                   /\ chatHistory[k].id = c.thinkingId
                   /\ chatHistory[k].isThinking
                   /\ chatHistory' = WithoutTurn(chatHistory, k)
        /\ lastCall'.op # "streamCompleted"
             => /\ Len(chatHistory') >= Len(chatHistory)
                /\ \A i \in DOMAIN chatHistory : chatHistory'[i].id = chatHistory[i].id
      ]_vars

C16_Witness ==
    /\ lastCall.op = "streamCompleted"
    /\ TurnsWithId(chatHistory, lastCall.id) = {}
    /\ \E i \in DOMAIN chatHistory :
          chatHistory[i].isThinking /\ chatHistory[i].id > lastCall.id


\* Positions of the provisional turns of the ledger
ProvisionalTurns == { i \in DOMAIN chatHistory : chatHistory[i].isThinking }

\* C17: the provisional turns of the ledger are as many as the orchestrations
\* in flight: each orchestration in flight owns exactly one provisional turn,
\* and every provisional turn belongs to an orchestration in flight.
C17_OneProvisionalTurnPerOrchestration ==
    /\ Cardinality(ProvisionalTurns) = Cardinality(calls)
    /\ \A c \in calls :
          /\ Cardinality(TurnsWithId(chatHistory, c.thinkingId)) = 1
          /\ TurnsWithId(chatHistory, c.thinkingId) \subseteq ProvisionalTurns
    /\ \A i \in ProvisionalTurns :
          \E c \in calls : c.thinkingId = chatHistory[i].id

C17_Witness ==
    /\ Cardinality(calls) = 2
    /\ Cardinality(ProvisionalTurns) = 2
    /\ \E c \in calls : c.kind = "stream"
    /\ \E c \in calls : c.kind = "turn"


\* Entry points that pass a hidden instruction and an empty visible prompt,
\* and those that pass a visible prompt alone
HiddenPromptOps == {"handleSuggestTitles", "handleGetCharacterIdeas",
                    "handleSuggestPlotTwist", "handleImproveWriting",
                    "handleLanguageSelect"}
VisiblePromptOps == {"onDiscussIdea", "onSendMessage"}

\* C18: a step that starts a turn orchestration appends, at the end of the
\* ledger, a user turn holding the visible prompt when that prompt is
\* non-empty and none otherwise, then exactly one provisional assistant turn;
\* sendMessage receives the hidden instruction when there is one and the
\* visible prompt otherwise, and the hidden instruction is in no appended turn.
C18_TurnStartAppendsPromptAndPlaceholder ==
    [][ ( /\ lastCall'.op \in HiddenPromptOps \cup VisiblePromptOps
          /\ lastCall'.id # 0 )
        => LET id == lastCall'.id
               sent == lastCall'.arg
               new == SubSeq(chatHistory', Len(chatHistory) + 1, Len(chatHistory'))
               placeholder == [id |-> id, role |-> "model",
                               content |-> <<"Thinking...">>, isThinking |-> TRUE]
           IN  /\ SubSeq(chatHistory', 1, Len(chatHistory)) = chatHistory
               /\ sent # <<>>
               /\ \E c \in calls' \ calls : c.thinkingId = id /\ c.kind = "turn"
               /\ IF lastCall'.op \in HiddenPromptOps
                  THEN /\ new = << placeholder >>
                       /\ \A i \in DOMAIN new : new[i].content # sent
                       /\ \/ /\ lastCall'.op = "handleSuggestTitles"
                             /\ sent = TitlesPrompt(storyContent)
                          \/ /\ lastCall'.op = "handleGetCharacterIdeas"
                             /\ sent = CharactersPrompt
                          \/ /\ lastCall'.op = "handleSuggestPlotTwist"
                             /\ sent = PlotTwistPrompt(storyContent)
                          \/ /\ lastCall'.op = "handleImproveWriting"
                             /\ sent = ImprovePrompt(selectedText)
                          \/ /\ lastCall'.op = "handleLanguageSelect"
                             /\ \E l \in Languages :
                                    sent = TranslatePrompt(l, selectedText)
                  ELSE /\ Len(new) = 2
                       /\ new[1].role = "user"
                       /\ new[1].content = sent
                       /\ ~new[1].isThinking
                       /\ new[1].id \notin {id} \cup { chatHistory[i].id : i \in DOMAIN chatHistory }
                       /\ new[2] = placeholder
                       /\ sent \in Prompts \cup {DiscussPrompt} ]_vars

C18_Witness ==
    /\ lastCall.op = "handleSuggestTitles"
    /\ lastCall.arg = TitlesPrompt(OnceUponATime)
    /\ chatHistory[Len(chatHistory)].id = lastCall.id
    /\ chatHistory[Len(chatHistory)].isThinking
    /\ \A i \in DOMAIN chatHistory : chatHistory[i].role # "user"


\* The orchestration holding thinkingId is suspended at the gateway
InFlight(thinkingId) == \E c \in calls : c.thinkingId = thinkingId

\* The ledger holds a provisional turn with this id
Provisional(thinkingId) ==
    \E i \in DOMAIN chatHistory :
        chatHistory[i].id = thinkingId /\ chatHistory[i].isThinking

\* C19: when every issued gateway call or stream settles, every started
\* orchestration ends with its provisional turn resolved or discarded;
\* isAiResponding always returns to false, is false whenever no orchestration
\* is in flight, and once false is raised only by the start of an orchestration.
C19_EveryOrchestrationResolves ==
    /\ \A thinkingId \in 2..MaxIds :
          (InFlight(thinkingId) \/ Provisional(thinkingId))
              ~> (~InFlight(thinkingId) /\ ~Provisional(thinkingId))
    /\ isAiResponding ~> ~isAiResponding
    /\ [](calls = {} => ~isAiResponding)
    /\ [][ (~isAiResponding /\ isAiResponding')
            => \E c \in calls' \ calls : c.thinkingId = lastCall'.id ]_vars

C19_Witness ==
    /\ lastCall.op \in {"sendMessageFulfilled", "sendMessageRejected",
                        "streamCompleted", "streamRejected"}
    /\ calls = {}
    /\ ~isAiResponding
    /\ nextId = MaxIds
    /\ \A i \in DOMAIN chatHistory : ~chatHistory[i].isThinking


\* C20: a step that resolves a provisional turn, to the reply or to an error
\* text, leaves the ledger with the same length; the turn of the resolving
\* orchestration keeps its id, role and position and gets the resolved content
\* with isThinking false; every other turn is unchanged at its position.
C20_ResolutionIsInPlace ==
    [][ lastCall'.op \in {"sendMessageFulfilled", "sendMessageRejected", "streamRejected"}
        => LET id == lastCall'.id
               resolved == CASE lastCall'.op = "sendMessageFulfilled" -> lastCall'.arg
                             [] lastCall'.op = "sendMessageRejected" ->
                                    <<"An error occurred: ">> \o lastCall'.arg
                             [] lastCall'.op = "streamRejected" ->
                                    <<"An error occurred while streaming: ">> \o lastCall'.arg
           IN  /\ Len(chatHistory') = Len(chatHistory)
               /\ Cardinality(TurnsWithId(chatHistory, id)) = 1
               /\ \A i \in DOMAIN chatHistory :
                     IF chatHistory[i].id = id
                     THEN /\ chatHistory[i].isThinking
                          /\ chatHistory'[i] = [id |-> id, role |-> chatHistory[i].role,
                                                content |-> resolved, isThinking |-> FALSE]
                     ELSE chatHistory'[i] = chatHistory[i] ]_vars

C20_Witness ==
    /\ lastCall.op \in {"sendMessageFulfilled", "sendMessageRejected", "streamRejected"}
    /\ \E i \in DOMAIN chatHistory :
          /\ chatHistory[i].id = lastCall.id
          /\ ~chatHistory[i].isThinking
          /\ i < Len(chatHistory)
          /\ chatHistory[i + 1].id > lastCall.id

====
